---- MODULE Spec2Model ----
(***************************************************************************)
(* Model of the average-calculator service (src/main.go): the NumberStore  *)
(* sliding window of unique numbers, its RWMutex, and the request handler  *)
(* of GET /numbers/:numberid that fetches a batch, merges it and reports   *)
(* the window states and the average.                                      *)
(*                                                                         *)
(* src/main.go holds two builds of the same program (lines 1-234 and       *)
(* 236-423).  Their NumberStore is the same; the handlers differ on the    *)
(* fetch-error path only.  The variable "variant" says which build runs.   *)
(*                                                                         *)
(* Go slices are modelled as sequences (values).  The window is only ever  *)
(* appended to and re-sliced from the front, so no element of a backing    *)
(* array is overwritten and the value view is exact.                       *)
(*                                                                         *)
(* The companion aggregation service (src/unnamed/part_000) is a program   *)
(* of its own: a cache of users, posts and comment counts refreshed from   *)
(* upstream at most every updateInterval, read by the handlers of          *)
(* GET /users and GET /posts.  Its state is the second group of variables; *)
(* the two programs share no state and have specifications of their own.   *)
(***************************************************************************)
EXTENDS Integers, Sequences, FiniteSets, TLC

\* ---------------------------------------------------------------- bounds

\* number of concurrently running request handlers (goroutines)
NumHandlers == 2

\* total number of requests served in a behaviour
MaxRequests == 3

\* number of requests to the aggregation service in flight at once
NumClients == 2

\* total number of requests to the aggregation service in a behaviour
MaxCacheRequests == 2

\* number of clock ticks in a behaviour
MaxTicks == 2

\* ------------------------------------------------------- program constants

WindowSize == 10

\* length of the "Bearer " prefix the handler strips from the header
BearerLen == 7

\* Cache.updateInterval, in seconds
updateInterval == 30

\* the number of users / posts a response holds at most
TopCount == 5

\* ------------------------------------------------------------------ inputs

Handlers == 1..NumHandlers

\* <<a, a+1, ..., a+n-1>>
Run(a, n) == [i \in 1..n |-> a + i - 1]

\* The number sequences the upstream service answers with: repeats inside a
\* batch, values already in the window, negative numbers and zero, a single
\* value, a batch that fills the window and a batch longer than the window.
Batches ==
    { <<>>,
      <<4, 7, 7, 9>>,
      <<7, 2>>,
      <<-3, 0>>,
      Run(1, 8),
      <<11>>,
      <<11, -3>>,
      Run(10, 11) }

\* What the call to the upstream service can produce.
Upstream ==
    [kind : {"neterr", "status", "parse"}, numbers : {<<>>}]
    \cup [kind : {"ok"}, numbers : Batches]

\* Authorization headers, by length and first seven characters.
AuthHeaders ==
    { [len |-> 0,  head |-> ""],
      [len |-> 7,  head |-> "Bearer "],
      [len |-> 12, head |-> "Basic dX"],
      [len |-> 12, head |-> "Bearer "] }

NumberIDs == {"p", "f", "e", "r", "x"}

\* numberTypes map of the handler
numberTypes == [id \in {"p", "f", "e", "r"} |->
                  CASE id = "p" -> "primes"
                    [] id = "f" -> "fibo"
                    [] id = "e" -> "even"
                    [] id = "r" -> "rand"]

\* ------------------------------------------------------------------- state

VARIABLES
    variant,     \* which build of main.go runs (1: lines 1-234, 2: 236-423)
    numbers,     \* ns.numbers, the window
    mu,          \* ns.mu: [writer : BOOLEAN, readers : Nat]
    pc,          \* each handler's position
    fetched,     \* handler local "numbers" (result of fetchNumbers)
    err,         \* handler local: err != nil
    uniq,        \* AddNumbers local uniqueNumbers (keys mapped to true)
    prevState,   \* handler local prevState / first GetCurrentState() result
    currState,   \* handler local currState
    avg,         \* handler local avg
    resp,        \* the response each handler sent last
    reqLeft,     \* requests still to be served
    lockOrder,   \* history: batches in the order AddNumbers acquired the lock
    atLock       \* history: the window when the handler's AddNumbers locked

\* the variables of the average-calculator service
nvars == <<variant, numbers, mu, pc, fetched, err, uniq, prevState, currState,
           avg, resp, reqLeft, lockOrder, atLock>>

VARIABLES
    cache,       \* the Cache fields users, userPostCounts, posts, postComments,
                 \* lastUpdated
    cmu,         \* the RWMutex embedded in Cache
    now,         \* the clock, in seconds since the program started
    cpc,         \* position of the background loop and of each request handler
    wake,        \* when the background loop's time.Sleep ends
    kind,        \* what a request asks for: users, latest, popular, bad
    newData,     \* updateData locals newUserPostCounts, newPosts, newPostComments
    result,      \* the body a handler computed under the read lock
    cReqLeft,    \* requests still to be served
    gen,         \* history: the refresh that wrote each of the three fields
    refreshLog,  \* history: the times at which refreshes set lastUpdated
    did,         \* history: what the caller's updateData call did
    checkedAt,   \* history: when the caller's updateData compared the times
    atCLock,     \* history: the cache when the caller's updateData locked
    queuedAt,    \* history: time of the refresh that finished while the
                 \* caller waited for the lock (NoTime when there was none)
    seen         \* history: gen as the handler found it under the read lock

\* the variables of the aggregation service
cvars == <<cache, cmu, now, cpc, wake, kind, newData, result, cReqLeft,
           gen, refreshLog, did, checkedAt, atCLock, queuedAt, seen>>

vars == <<nvars, cvars>>

\* ---------------------------------------------------------- pure functions

Elems(s) == {s[i] : i \in 1..Len(s)}

RECURSIVE Sum(_)
Sum(s) == IF s = <<>> THEN 0 ELSE Head(s) + Sum(Tail(s))

Abs(n) == IF n < 0 THEN -n ELSE n

RECURSIVE Gcd(_, _)
Gcd(a, b) == IF b = 0 THEN a ELSE Gcd(b, a % b)

\* float64(n) / float64(d) as the exact ratio in lowest terms, d > 0
Ratio(n, d) ==
    LET g == Gcd(Abs(n), d)
    IN  [num |-> n \div g, den |-> d \div g]

\* the float64 value 0
Zero == [num |-> 0, den |-> 1]

\* make([]int, len(s)) without the copy: a slice of zeros
MakeOnly(s) == [i \in 1..Len(s) |-> 0]

\* make([]int, len(s)); copy(dst, s)
CopySlice(s) == [i \in 1..Len(s) |-> s[i]]

\* uniqueNumbers left empty: the loop over ns.numbers is missing
BuildEmpty(nums) == {}

\* uniqueNumbers after "for _, num := range ns.numbers { uniqueNumbers[num] = true }"
BuildUnique(nums) == {nums[i] : i \in 1..Len(nums)}

\* the append loop without the membership test
AppendAlways(nums, u, new) == nums \o new

\* the append loop without "uniqueNumbers[num] = true"
RECURSIVE AppendNoMark(_, _, _)
AppendNoMark(nums, u, new) ==
    IF new = <<>> THEN nums
    ELSE IF Head(new) \notin u
         THEN AppendNoMark(Append(nums, Head(new)), u, Tail(new))
         ELSE AppendNoMark(nums, u, Tail(new))

\* "for _, num := range newNumbers { if !uniqueNumbers[num] { append; mark } }"
RECURSIVE AppendUnique(_, _, _)
AppendUnique(nums, u, new) ==
    IF new = <<>> THEN nums
    ELSE IF Head(new) \notin u
         THEN AppendUnique(Append(nums, Head(new)), u \cup {Head(new)}, Tail(new))
         ELSE AppendUnique(nums, u, Tail(new))

\* no truncation at all
KeepAll(nums) == nums

\* truncation that keeps one number too few
KeepLastOffByOne(nums) ==
    IF Len(nums) > WindowSize
    THEN SubSeq(nums, Len(nums) - WindowSize + 2, Len(nums))
    ELSE nums

\* truncation that keeps the first WindowSize numbers
KeepFirst(nums) ==
    IF Len(nums) > WindowSize THEN SubSeq(nums, 1, WindowSize) ELSE nums

\* "if len(ns.numbers) > WindowSize { ns.numbers = ns.numbers[len-WindowSize:] }"
KeepLast(nums) ==
    IF Len(nums) > WindowSize
    THEN SubSeq(nums, Len(nums) - WindowSize + 1, Len(nums))
    ELSE nums

\* GetAverage dividing by the window size instead of the length
AverageByWindowSize(nums) ==
    IF Len(nums) = 0 THEN Zero ELSE Ratio(Sum(nums), WindowSize)

\* body of GetAverage
Average(nums) ==
    IF Len(nums) = 0 THEN Zero ELSE Ratio(Sum(nums), Len(nums))

\* fetchNumbers: every failure, and an empty result, is (nil, error)
fetchNumbers(u) ==
    IF u.kind # "ok" \/ Len(u.numbers) = 0
    THEN [numbers |-> <<>>, err |-> TRUE]
    ELSE [numbers |-> u.numbers, err |-> FALSE]

\* the handler's "if err != nil" that never takes the error branch
ErrIgnored(e) == FALSE

\* the handler's "if err != nil"
ErrBranch(e) == e

\* sync.RWMutex: Lock() that does not wait
CanLockAlways(m) == TRUE

\* sync.RWMutex: Lock() proceeds when no writer and no reader holds the lock
CanLock(m) == ~m.writer /\ m.readers = 0

\* sync.RWMutex: RLock() that does not wait
CanRLockAlways(m) == TRUE

\* sync.RWMutex: RLock() proceeds when no writer holds the lock.  (Go also
\* holds back new readers while a Lock() call waits; that only removes
\* interleavings, so the model allows a superset of the code's schedules.)
CanRLock(m) == ~m.writer

\* a return path that leaves the read lock held
RUnlockForgotten(m) == m

\* sync.RWMutex: RUnlock()
RUnlock(m) == [m EXCEPT !.readers = @ - 1]

\* ------------------------------------------- aggregation service: inputs

Clients == 1..NumClients

\* the goroutine of the background refresh loop
Loop == 0

Callers == {Loop} \cup Clients

\* length of a clock tick, and the time at which the clock stops
TickLen == updateInterval \div 2
MaxTime == MaxTicks * TickLen

\* the zero time.Time of a Cache that was never refreshed: further in the
\* past than any updateInterval
ZeroTime == 0 - 2 * updateInterval

\* no refresh finished while the caller waited
NoTime == ZeroTime - 1

\* a Go map as a function with a finite domain
EmptyMap == [k \in {} |-> 0]
Put(m, k, v) == [x \in DOMAIN m \cup {k} |-> IF x = k THEN v ELSE m[x]]

\* m[k] of a Go map: the zero value d when the key is missing
Get(m, k, d) == IF k \in DOMAIN m THEN m[k] ELSE d

Post(id, uid) == [ID |-> id, UserID |-> uid]

\* What upstream serves.  SmallData: one user with one post.  BigData: six
\* users, four of them without posts, six posts whose IDs are not in order.
SmallData ==
    [users    |-> [u \in {"u1"} |-> "Ann"],
     posts    |-> [u \in {"u1"} |-> << Post(11, 1) >>],
     comments |-> [i \in {11} |-> 2]]

BigData ==
    [users    |-> [u \in {"u1", "u2", "u3", "u4", "u5", "u6"} |->
                     CASE u = "u1" -> "Ann" [] u = "u2" -> "Bob"
                       [] u = "u3" -> "Cy"  [] u = "u4" -> "Di"
                       [] u = "u5" -> "Ed"  [] u = "u6" -> "Flo"],
     posts    |-> [u \in {"u1", "u2", "u3", "u4", "u5", "u6"} |->
                     CASE u = "u1" -> << Post(21, 1), Post(25, 1), Post(23, 1),
                                         Post(26, 1) >>
                       [] u = "u2" -> << Post(24, 2), Post(22, 2) >>
                       [] OTHER    -> << >>],
     comments |-> [i \in {21, 22, 23, 24, 25, 26} |->
                     CASE i = 22 -> 3 [] i = 24 -> 3 [] i = 21 -> 1
                       [] i = 26 -> 1 [] OTHER -> 0]]

Datasets == {SmallData, BigData}

\* the users whose fetchUserPosts call fails, and the posts whose
\* fetchPostComments call fails, during one refresh
Failures ==
    { [users |-> {},     posts |-> {}],
      [users |-> {"u1"}, posts |-> {}],
      [users |-> {},     posts |-> {22}] }

RequestKinds == {"users", "latest", "popular", "bad"}

\* ---------------------------------- aggregation service: pure functions

\* time.Since(t) at clock value n
Since(t, n) == n - t

\* the staleness test that lets every call refresh
StaleAlways(t, n) == TRUE

\* negation of "time.Since(c.lastUpdated) < c.updateInterval"
Stale(t, n) == ~(Since(t, n) < updateInterval)

\* the sequences that hold every element of the set S once: the orders in
\* which a "range" over a map with the keys S can run
RECURSIVE Orders(_)
Orders(S) ==
    IF S = {} THEN {<<>>}
    ELSE UNION {{<<x>> \o s : s \in Orders(S \ {x})} : x \in S}

\* some sequence holding every element of S once
RECURSIVE SetToSeq(_)
SetToSeq(S) ==
    IF S = {} THEN <<>>
    ELSE LET x == CHOOSE y \in S : TRUE IN <<x>> \o SetToSeq(S \ {x})

\* The orders in which "for userID, userName := range users" can run.  A
\* user without posts leaves the same maps and the same newPosts wherever it
\* comes in the order, so these users are put last.
RangeOrders(up) ==
    LET posters == {u \in DOMAIN up.users : up.posts[u] # <<>>}
    IN  {s \o SetToSeq(DOMAIN up.users \ posters) : s \in Orders(posters)}

\* the inner loop of updateData: comment counts of the posts of one user
RECURSIVE RangePosts(_, _, _, _)
RangePosts(posts, up, failP, comments) ==
    IF posts = <<>> THEN comments
    ELSE LET post == Head(posts) IN
         IF post.ID \in failP
         THEN RangePosts(Tail(posts), up, failP, comments)
         ELSE RangePosts(Tail(posts), up, failP,
                         Put(comments, post.ID, up.comments[post.ID]))

\* the loop "for userID, userName := range users" of updateData, run in the
\* given order; acc holds c.users and the three new collections
RECURSIVE RangeUsers(_, _, _, _, _)
RangeUsers(order, up, failU, failP, acc) ==
    IF order = <<>> THEN acc
    ELSE LET userID == Head(order)
             named  == [acc EXCEPT !.users = Put(@, userID, up.users[userID])]
         IN  IF userID \in failU
             THEN RangeUsers(Tail(order), up, failU, failP, named)
             ELSE LET posts == up.posts[userID] IN
                  RangeUsers(Tail(order), up, failU, failP,
                      [named EXCEPT
                          !.counts = Put(@, userID, Len(posts)),
                          !.posts = @ \o posts,
                          !.comments = RangePosts(posts, up, failP, @)])

\* sort.Slice(s, func(i, j int) bool { return s[i].F > s[j].F }) for the
\* field F: the sort is not stable, so the outcome is any arrangement of s
\* in which no element has a greater F than an element before it
SortSlice(s, F) ==
    { [i \in 1..Len(s) |-> s[f[i]]] :
        f \in { g \in Permutations(1..Len(s)) :
                  \A i, j \in 1..Len(s) :
                      i < j => ~(s[g[j]][F] > s[g[i]][F]) } }

\* a response that is not cut
FirstAll(s) == s

\* "if len(s) > 5 { s = s[:5] }"
FirstFive(s) == IF Len(s) > TopCount THEN SubSeq(s, 1, TopCount) ELSE s

\* the slice getTopUsers builds from the cache; the map is ranged over in
\* any order, and every order is covered by the arrangements of SortSlice
UserPostCounts(c) ==
    SetToSeq({ [UserID |-> u, Name |-> Get(c.users, u, ""),
                Count |-> c.userPostCounts[u]] : u \in DOMAIN c.userPostCounts })

\* what getTopUsers can answer from cache c
TopUsers(c) == { FirstFive(s) : s \in SortSlice(UserPostCounts(c), "Count") }

\* what getPosts answers for type=latest: the copy is sorted and cut
LatestPosts(c) == { FirstFive(s) : s \in SortSlice(CopySlice(c.posts), "ID") }

RECURSIVE MaxComments(_, _)
MaxComments(vals, m) ==
    IF vals = {} THEN m
    ELSE LET v == CHOOSE x \in vals : TRUE IN
         MaxComments(vals \ {v}, IF v > m THEN v ELSE m)

\* what getPosts answers for type=popular
PopularPosts(c) ==
    LET max == MaxComments({c.postComments[k] : k \in DOMAIN c.postComments}, 0)
    IN  SelectSeq(c.posts, LAMBDA post : Get(c.postComments, post.ID, 0) = max)

NoData == [users |-> EmptyMap, counts |-> EmptyMap, posts |-> <<>>,
           comments |-> EmptyMap]

NoGen == [counts |-> 0, posts |-> 0, comments |-> 0]

\* the cache variable of part_000, the loop about to make its first call
CacheStart ==
    /\ cache = [users |-> EmptyMap, userPostCounts |-> EmptyMap,
                posts |-> <<>>, postComments |-> EmptyMap,
                lastUpdated |-> ZeroTime]
    /\ cmu = [writer |-> FALSE, readers |-> 0]
    /\ now = 0
    /\ cpc = [c \in Callers |-> IF c = Loop THEN "u_lock" ELSE "idle"]
    /\ wake = 0
    /\ kind = [c \in Clients |-> "users"]
    /\ newData = [c \in Callers |-> NoData]
    /\ result = [c \in Clients |-> <<>>]
    /\ cReqLeft = MaxCacheRequests
    /\ gen = NoGen
    /\ refreshLog = <<>>
    /\ did = [c \in Callers |-> "none"]
    /\ checkedAt = [c \in Callers |-> 0]
    /\ atCLock = [c \in Callers |-> cache]
    /\ queuedAt = [c \in Callers |-> NoTime]
    /\ seen = [c \in Clients |-> NoGen]

\* ---------------------------------------------------------------- initial

NoResp == [status |-> 0]

Init ==
    /\ variant \in {1, 2}
    /\ numbers = <<>>
    /\ mu = [writer |-> FALSE, readers |-> 0]
    /\ pc = [p \in Handlers |-> "idle"]
    /\ fetched = [p \in Handlers |-> <<>>]
    /\ err = [p \in Handlers |-> FALSE]
    /\ uniq = [p \in Handlers |-> {}]
    /\ prevState = [p \in Handlers |-> <<>>]
    /\ currState = [p \in Handlers |-> <<>>]
    /\ avg = [p \in Handlers |-> Zero]
    /\ resp = [p \in Handlers |-> NoResp]
    /\ reqLeft = MaxRequests
    /\ lockOrder = <<>>
    /\ atLock = [p \in Handlers |-> <<>>]
    /\ CacheStart

\* ---------------------------------------------------------------- handler

store == <<numbers, mu, lockOrder>>
locals == <<fetched, err, uniq, prevState, currState, avg>>

\* A request arrives.  net/http runs every request in a goroutine of its own;
\* the handlers are the slots of the requests in flight, and a new request
\* takes the lowest free slot.
Accept(p) ==
    /\ pc[p] = "idle"
    /\ \A q \in Handlers : q < p => pc[q] # "idle"
    /\ reqLeft > 0
    /\ reqLeft' = reqLeft - 1
    /\ atLock' = [atLock EXCEPT ![p] = <<>>]

BadAuth(h) == h.len = 0 \/ h.len <= BearerLen \/ h.head # "Bearer "

\* missing or malformed Authorization header: 401, the store is not touched
Unauthorized(p) ==
    /\ Accept(p)
    /\ \E h \in AuthHeaders : BadAuth(h)
    /\ resp' = [resp EXCEPT ![p] = [status |-> 401, error |-> TRUE]]
    /\ UNCHANGED <<cvars, variant, store, pc, locals>>

\* unknown number id: 400, the store is not touched
BadRequest(p) ==
    /\ Accept(p)
    /\ \E h \in AuthHeaders : ~BadAuth(h)
    /\ \E id \in NumberIDs : id \notin DOMAIN numberTypes
    /\ resp' = [resp EXCEPT ![p] = [status |-> 400, error |-> TRUE]]
    /\ UNCHANGED <<cvars, variant, store, pc, locals>>

\* valid request: fetchNumbers is called (the upstream service answers with
\* one of ups) and the handler branches on err
FetchFrom(p, ups) ==
    /\ Accept(p)
    /\ \E h \in AuthHeaders : ~BadAuth(h)
    /\ \E id \in NumberIDs : id \in DOMAIN numberTypes
    /\ \E u \in ups :
          LET r == fetchNumbers(u) IN
          IF ErrBranch(r.err)
          THEN IF variant = 1
               THEN /\ fetched' = [fetched EXCEPT ![p] = r.numbers]
                    /\ err' = [err EXCEPT ![p] = r.err]
                    /\ pc' = [pc EXCEPT ![p] = "prev_rlock"]
                    /\ resp' = [resp EXCEPT ![p] = NoResp]
               ELSE \* second build: gin.H{"error": err.Error()} and return
                    /\ resp' = [resp EXCEPT ![p] =
                                  [status |-> 500, error |-> TRUE]]
                    /\ UNCHANGED <<fetched, err, pc>>
          ELSE /\ fetched' = [fetched EXCEPT ![p] = r.numbers]
               /\ err' = [err EXCEPT ![p] = r.err]
               /\ pc' = [pc EXCEPT ![p] = "add_lock"]
               /\ resp' = [resp EXCEPT ![p] = NoResp]
    /\ UNCHANGED <<cvars, variant, store, uniq, prevState, currState, avg>>

Fetch(p) == FetchFrom(p, Upstream)

\* AddNumbers called directly with one of the batches bs (the empty batch
\* included), followed by GetCurrentState and GetAverage as in the handler
DirectCall(p, bs) ==
    /\ Accept(p)
    /\ \E b \in bs : fetched' = [fetched EXCEPT ![p] = b]
    /\ pc' = [pc EXCEPT ![p] = "add_lock"]
    /\ resp' = [resp EXCEPT ![p] = NoResp]
    /\ UNCHANGED <<cvars, variant, store, err, uniq, prevState, currState, avg>>

\* ------------------------------------------------------------- AddNumbers

\* ns.mu.Lock()
AddLock(p) ==
    /\ pc[p] = "add_lock"
    /\ CanLock(mu)
    /\ mu' = [mu EXCEPT !.writer = TRUE]
    /\ lockOrder' = Append(lockOrder, fetched[p])
    /\ atLock' = [atLock EXCEPT ![p] = numbers]
    /\ pc' = [pc EXCEPT ![p] = "add_snap"]
    /\ UNCHANGED <<cvars, variant, numbers, locals, resp, reqLeft>>

\* prevState := copy of ns.numbers; uniqueNumbers built from ns.numbers
AddSnapshot(p) ==
    /\ pc[p] = "add_snap"
    /\ prevState' = [prevState EXCEPT ![p] = CopySlice(numbers)]
    /\ uniq' = [uniq EXCEPT ![p] = BuildUnique(numbers)]
    /\ pc' = [pc EXCEPT ![p] = "add_loop"]
    /\ UNCHANGED <<cvars, variant, store, fetched, err, currState, avg, resp,
                   reqLeft, atLock>>

\* the loop appending the new unique numbers
AddLoop(p) ==
    /\ pc[p] = "add_loop"
    /\ numbers' = AppendUnique(numbers, uniq[p], fetched[p])
    /\ pc' = [pc EXCEPT ![p] = "add_trunc"]
    /\ UNCHANGED <<cvars, variant, mu, lockOrder, locals, resp, reqLeft, atLock>>

\* keep only the last WindowSize numbers
AddTruncate(p) ==
    /\ pc[p] = "add_trunc"
    /\ numbers' = KeepLast(numbers)
    /\ pc' = [pc EXCEPT ![p] = "add_unlock"]
    /\ UNCHANGED <<cvars, variant, mu, lockOrder, locals, resp, reqLeft, atLock>>

\* return prevState; the deferred ns.mu.Unlock() runs
AddUnlock(p) ==
    /\ pc[p] = "add_unlock"
    /\ mu' = [mu EXCEPT !.writer = FALSE]
    /\ uniq' = [uniq EXCEPT ![p] = {}]
    /\ pc' = [pc EXCEPT ![p] = "cur_rlock"]
    /\ UNCHANGED <<cvars, variant, numbers, lockOrder, fetched, err, prevState,
                   currState, avg, resp, reqLeft, atLock>>

\* -------------------------------------------------------- GetCurrentState

\* ns.mu.RLock(); the copy of ns.numbers is made
GetCurrentStateRLock(p) ==
    /\ pc[p] \in {"prev_rlock", "cur_rlock"}
    /\ CanRLock(mu)
    /\ mu' = [mu EXCEPT !.readers = @ + 1]
    /\ IF pc[p] = "prev_rlock"
       THEN /\ prevState' = [prevState EXCEPT ![p] = CopySlice(numbers)]
            /\ pc' = [pc EXCEPT ![p] = "prev_runlock"]
            /\ UNCHANGED currState
       ELSE /\ currState' = [currState EXCEPT ![p] = CopySlice(numbers)]
            /\ pc' = [pc EXCEPT ![p] = "cur_runlock"]
            /\ UNCHANGED prevState
    /\ UNCHANGED <<cvars, variant, numbers, lockOrder, fetched, err, uniq, avg, resp,
                   reqLeft, atLock>>

\* the copy is returned; the deferred ns.mu.RUnlock() runs
GetCurrentStateRUnlock(p) ==
    /\ pc[p] \in {"prev_runlock", "cur_runlock"}
    /\ mu' = RUnlock(mu)
    /\ pc' = [pc EXCEPT ![p] =
                IF pc[p] = "prev_runlock" THEN "cur_rlock" ELSE "avg_rlock"]
    /\ UNCHANGED <<cvars, variant, numbers, lockOrder, locals, resp, reqLeft, atLock>>

\* ------------------------------------------------------------- GetAverage

\* ns.mu.RLock(); the average of ns.numbers is computed
GetAverageRLock(p) ==
    /\ pc[p] = "avg_rlock"
    /\ CanRLock(mu)
    /\ mu' = [mu EXCEPT !.readers = @ + 1]
    /\ avg' = [avg EXCEPT ![p] = Average(numbers)]
    /\ pc' = [pc EXCEPT ![p] = "avg_runlock"]
    /\ UNCHANGED <<cvars, variant, numbers, lockOrder, fetched, err, uniq, prevState,
                   currState, resp, reqLeft, atLock>>

\* the average is returned; the deferred ns.mu.RUnlock() runs
GetAverageRUnlock(p) ==
    /\ pc[p] = "avg_runlock"
    /\ mu' = RUnlock(mu)
    /\ pc' = [pc EXCEPT ![p] = "respond"]
    /\ UNCHANGED <<cvars, variant, numbers, lockOrder, locals, resp, reqLeft, atLock>>

\* ---------------------------------------------------------------- c.JSON

\* the response is written and the handler returns (its locals are gone)
Respond(p) ==
    /\ pc[p] = "respond"
    /\ resp' = [resp EXCEPT ![p] =
                  IF err[p]
                  THEN [status |-> 500, error |-> TRUE,
                        windowPrevState |-> prevState[p],
                        windowCurrState |-> currState[p],
                        numbers |-> <<>>,
                        avg |-> avg[p]]
                  ELSE [status |-> 200,
                        windowPrevState |-> prevState[p],
                        windowCurrState |-> currState[p],
                        numbers |-> fetched[p],
                        avg |-> avg[p]]]
    /\ fetched' = [fetched EXCEPT ![p] = <<>>]
    /\ err' = [err EXCEPT ![p] = FALSE]
    /\ prevState' = [prevState EXCEPT ![p] = <<>>]
    /\ currState' = [currState EXCEPT ![p] = <<>>]
    /\ avg' = [avg EXCEPT ![p] = Zero]
    /\ pc' = [pc EXCEPT ![p] = "idle"]
    /\ UNCHANGED <<cvars, variant, store, uniq, reqLeft, atLock>>

Next ==
    \E p \in Handlers :
        \/ Unauthorized(p)
        \/ BadRequest(p)
        \/ Fetch(p)
        \/ AddLock(p)
        \/ AddSnapshot(p)
        \/ AddLoop(p)
        \/ AddTruncate(p)
        \/ AddUnlock(p)
        \/ GetCurrentStateRLock(p)
        \/ GetCurrentStateRUnlock(p)
        \/ GetAverageRLock(p)
        \/ GetAverageRUnlock(p)
        \/ Respond(p)

Spec == Init /\ [][Next]_vars

\* ------------------------------------------- the store called directly

\* batches of the direct calls: those of the service, the empty batch, and
\* the batch of the README example
StoreBatches == Batches \cup {<<2, 4, 6, 8>>}

\* one caller at a time
SeqCall(p) ==
    /\ \A q \in Handlers : pc[q] = "idle"
    /\ DirectCall(p, StoreBatches)

StoreInit == Init /\ variant = 1

StoreNext ==
    \E p \in Handlers :
        \/ SeqCall(p)
        \/ AddLock(p)
        \/ AddSnapshot(p)
        \/ AddLoop(p)
        \/ AddTruncate(p)
        \/ AddUnlock(p)
        \/ GetCurrentStateRLock(p)
        \/ GetCurrentStateRUnlock(p)
        \/ GetAverageRLock(p)
        \/ GetAverageRUnlock(p)
        \/ Respond(p)

\* sequential use of the store, as by a test of AddNumbers / GetAverage
StoreSpec == StoreInit /\ [][StoreNext]_vars

\* ------------------------------------- the handlers under fair scheduling

\* a small set of upstream answers: a failure, an empty result, two batches
LiveUpstream ==
    { [kind |-> "neterr", numbers |-> <<>>],
      [kind |-> "ok", numbers |-> <<>>],
      [kind |-> "ok", numbers |-> <<7, 2>>],
      [kind |-> "ok", numbers |-> Run(10, 11)] }

LiveFetch(p) == FetchFrom(p, LiveUpstream)

LiveNext ==
    \E p \in Handlers :
        \/ LiveFetch(p)
        \/ AddLock(p)
        \/ AddSnapshot(p)
        \/ AddLoop(p)
        \/ AddTruncate(p)
        \/ AddUnlock(p)
        \/ GetCurrentStateRLock(p)
        \/ GetCurrentStateRUnlock(p)
        \/ GetAverageRLock(p)
        \/ GetAverageRUnlock(p)
        \/ Respond(p)

\* A goroutine that can run does run (weak fairness of the steps that never
\* wait), and a goroutine waiting for the lock gets it if the lock becomes
\* free again and again (strong fairness of the acquisitions).
LiveFairness ==
    \A p \in Handlers :
        /\ SF_vars(AddLock(p))
        /\ SF_vars(GetCurrentStateRLock(p))
        /\ SF_vars(GetAverageRLock(p))
        /\ WF_vars(AddSnapshot(p) \/ AddLoop(p) \/ AddTruncate(p)
                      \/ AddUnlock(p) \/ GetCurrentStateRUnlock(p)
                      \/ GetAverageRUnlock(p) \/ Respond(p))

LiveSpec == Init /\ [][LiveNext]_vars /\ LiveFairness

\* ------------------------------------------------- aggregation service

EmptyCache ==
    [users |-> EmptyMap, userPostCounts |-> EmptyMap, posts |-> <<>>,
     postComments |-> EmptyMap, lastUpdated |-> ZeroTime]

\* positions of updateData between c.Lock() and c.Unlock()
UpdateCS == {"u_check", "u_fetch", "u_counts", "u_posts", "u_comments",
             "u_stamp", "u_unlock"}

\* positions of updateData after the staleness test said "refresh"
RefreshPcs == {"u_fetch", "u_counts", "u_posts", "u_comments", "u_stamp"}

\* a request arrives and takes the lowest free handler slot
CacheAccept(c) ==
    /\ cpc[c] = "idle"
    /\ \A d \in Clients : d < c => cpc[d] # "idle"
    /\ cReqLeft > 0
    /\ cReqLeft' = cReqLeft - 1

\* getPosts with a type that is neither latest nor popular: the handler
\* answers 400 and returns; updateData is not called, the cache is not read
BadType(c) ==
    /\ CacheAccept(c)
    /\ \E k \in RequestKinds : k \notin {"users", "latest", "popular"}
    /\ UNCHANGED <<nvars, cache, cmu, now, cpc, wake, kind, newData, result,
                   gen, refreshLog, did, checkedAt, atCLock, queuedAt, seen>>

\* getTopUsers, or getPosts with a valid type: cache.updateData() is called
Request(c) ==
    /\ CacheAccept(c)
    /\ \E k \in RequestKinds \ {"bad"} : kind' = [kind EXCEPT ![c] = k]
    /\ cpc' = [cpc EXCEPT ![c] = "u_lock"]
    /\ UNCHANGED <<nvars, cache, cmu, now, wake, newData, result, gen,
                   refreshLog, did, checkedAt, atCLock, queuedAt, seen>>

\* c.Lock()
UpdLock(c) ==
    /\ cpc[c] = "u_lock"
    /\ CanLock(cmu)
    /\ cmu' = [cmu EXCEPT !.writer = TRUE]
    /\ atCLock' = [atCLock EXCEPT ![c] = cache]
    /\ cpc' = [cpc EXCEPT ![c] = "u_check"]
    /\ UNCHANGED <<nvars, cache, now, wake, kind, newData, result,
                   cReqLeft, gen, refreshLog, did, checkedAt, queuedAt, seen>>

\* "if time.Since(c.lastUpdated) < c.updateInterval { return }"
UpdCheck(c) ==
    /\ cpc[c] = "u_check"
    /\ checkedAt' = [checkedAt EXCEPT ![c] = now]
    /\ IF Stale(cache.lastUpdated, now)
       THEN /\ cpc' = [cpc EXCEPT ![c] = "u_fetch"]
            /\ UNCHANGED did
       ELSE /\ cpc' = [cpc EXCEPT ![c] = "u_unlock"]
            /\ did' = [did EXCEPT ![c] = "skip"]
    /\ UNCHANGED <<nvars, cache, cmu, now, wake, kind, newData, result,
                   cReqLeft, gen, refreshLog, atCLock, queuedAt, seen>>

\* fetchUsers() fails: the error is logged and updateData returns
UpdFetchFails(c) ==
    /\ cpc[c] = "u_fetch"
    /\ did' = [did EXCEPT ![c] = "fail"]
    /\ cpc' = [cpc EXCEPT ![c] = "u_unlock"]
    /\ UNCHANGED <<nvars, cache, cmu, now, wake, kind, newData, result,
                   cReqLeft, gen, refreshLog, checkedAt, atCLock, queuedAt,
                   seen>>

\* fetchUsers() succeeds and the loop over the users runs: c.users is
\* written in place, the three new collections are built
UpdFetch(c) ==
    /\ cpc[c] = "u_fetch"
    /\ \E up \in Datasets, fail \in Failures :
          \E order \in RangeOrders(up) :
              LET acc == RangeUsers(order, up, fail.users, fail.posts,
                                    [NoData EXCEPT !.users = cache.users])
              IN  /\ cache' = [cache EXCEPT !.users = acc.users]
                  /\ newData' = [newData EXCEPT ![c] =
                                    [acc EXCEPT !.users = EmptyMap]]
    /\ did' = [did EXCEPT ![c] = "fetch"]
    /\ cpc' = [cpc EXCEPT ![c] = "u_counts"]
    /\ UNCHANGED <<nvars, cmu, now, wake, kind, result, cReqLeft, gen,
                   refreshLog, checkedAt, atCLock, queuedAt, seen>>

\* c.userPostCounts = newUserPostCounts
UpdSetCounts(c) ==
    /\ cpc[c] = "u_counts"
    /\ cache' = [cache EXCEPT !.userPostCounts = newData[c].counts]
    /\ gen' = [gen EXCEPT !.counts = Len(refreshLog) + 1]
    /\ cpc' = [cpc EXCEPT ![c] = "u_posts"]
    /\ UNCHANGED <<nvars, cmu, now, wake, kind, newData, result,
                   cReqLeft, refreshLog, did, checkedAt, atCLock, queuedAt,
                   seen>>

\* c.posts = newPosts
UpdSetPosts(c) ==
    /\ cpc[c] = "u_posts"
    /\ cache' = [cache EXCEPT !.posts = newData[c].posts]
    /\ gen' = [gen EXCEPT !.posts = Len(refreshLog) + 1]
    /\ cpc' = [cpc EXCEPT ![c] = "u_comments"]
    /\ UNCHANGED <<nvars, cmu, now, wake, kind, newData, result,
                   cReqLeft, refreshLog, did, checkedAt, atCLock, queuedAt,
                   seen>>

\* c.postComments = newPostComments
UpdSetComments(c) ==
    /\ cpc[c] = "u_comments"
    /\ cache' = [cache EXCEPT !.postComments = newData[c].comments]
    /\ gen' = [gen EXCEPT !.comments = Len(refreshLog) + 1]
    /\ cpc' = [cpc EXCEPT ![c] = "u_stamp"]
    /\ UNCHANGED <<nvars, cmu, now, wake, kind, newData, result,
                   cReqLeft, refreshLog, did, checkedAt, atCLock, queuedAt,
                   seen>>

\* c.lastUpdated = time.Now()
UpdStamp(c) ==
    /\ cpc[c] = "u_stamp"
    /\ cache' = [cache EXCEPT !.lastUpdated = now]
    /\ refreshLog' = Append(refreshLog, now)
    /\ queuedAt' = [d \in Callers |->
                      IF cpc[d] = "u_lock" THEN now ELSE queuedAt[d]]
    /\ cpc' = [cpc EXCEPT ![c] = "u_unlock"]
    /\ UNCHANGED <<nvars, cmu, now, wake, kind, newData, result,
                   cReqLeft, gen, did, checkedAt, atCLock, seen>>

\* updateData returns and the deferred c.Unlock() runs; the background loop
\* goes to sleep, a handler goes on to read the cache
UpdUnlock(c) ==
    /\ cpc[c] = "u_unlock"
    /\ cmu' = [cmu EXCEPT !.writer = FALSE]
    /\ newData' = [newData EXCEPT ![c] = NoData]
    /\ atCLock' = [atCLock EXCEPT ![c] = EmptyCache]
    /\ checkedAt' = [checkedAt EXCEPT ![c] = 0]
    /\ queuedAt' = [queuedAt EXCEPT ![c] = NoTime]
    /\ did' = [did EXCEPT ![c] = "none"]
    /\ IF c = Loop
       THEN /\ cpc' = [cpc EXCEPT ![c] = "sleep"]
            /\ wake' = now + updateInterval
       ELSE /\ cpc' = [cpc EXCEPT ![c] = "r_rlock"]
            /\ UNCHANGED wake
    /\ UNCHANGED <<nvars, cache, now, kind, result, cReqLeft, gen,
                   refreshLog, seen>>

\* time.Sleep(cache.updateInterval) of the background loop is over
Wake ==
    /\ cpc[Loop] = "sleep"
    /\ now >= wake
    /\ cpc' = [cpc EXCEPT ![Loop] = "u_lock"]
    /\ UNCHANGED <<nvars, cache, cmu, now, wake, kind, newData, result,
                   cReqLeft, gen, refreshLog, did, checkedAt, atCLock,
                   queuedAt, seen>>

\* getTopUsers: cache.RLock(); the users are collected, sorted and cut
getTopUsers(c) ==
    /\ cpc[c] = "r_rlock"
    /\ kind[c] = "users"
    /\ CanRLock(cmu)
    /\ cmu' = [cmu EXCEPT !.readers = @ + 1]
    /\ result' \in {[result EXCEPT ![c] = r] : r \in TopUsers(cache)}
    /\ seen' = [seen EXCEPT ![c] = gen]
    /\ cpc' = [cpc EXCEPT ![c] = "r_runlock"]
    /\ UNCHANGED <<nvars, cache, now, wake, kind, newData, cReqLeft,
                   gen, refreshLog, did, checkedAt, atCLock, queuedAt>>

\* getPosts: cache.RLock(); the switch on postType
getPosts(c) ==
    /\ cpc[c] = "r_rlock"
    /\ kind[c] \in {"latest", "popular"}
    /\ CanRLock(cmu)
    /\ cmu' = [cmu EXCEPT !.readers = @ + 1]
    /\ result' \in {[result EXCEPT ![c] = r] :
                       r \in IF kind[c] = "latest"
                             THEN LatestPosts(cache)
                             ELSE {PopularPosts(cache)}}
    /\ seen' = [seen EXCEPT ![c] = gen]
    /\ cpc' = [cpc EXCEPT ![c] = "r_runlock"]
    /\ UNCHANGED <<nvars, cache, now, wake, kind, newData, cReqLeft,
                   gen, refreshLog, did, checkedAt, atCLock, queuedAt>>

\* c.JSON(http.StatusOK, ...) sends the body; the deferred cache.RUnlock()
\* runs and the handler returns (its locals are gone)
SendJSON(c) ==
    /\ cpc[c] = "r_runlock"
    /\ cmu' = RUnlock(cmu)
    /\ result' = [result EXCEPT ![c] = <<>>]
    /\ seen' = [seen EXCEPT ![c] = NoGen]
    /\ kind' = [kind EXCEPT ![c] = "users"]
    /\ cpc' = [cpc EXCEPT ![c] = "idle"]
    /\ UNCHANGED <<nvars, cache, now, wake, newData, cReqLeft, gen,
                   refreshLog, did, checkedAt, atCLock, queuedAt>>

\* the clock advances
Tick ==
    /\ now + TickLen <= MaxTime
    /\ now' = now + TickLen
    /\ UNCHANGED <<nvars, cache, cmu, cpc, wake, kind, newData, result,
                   cReqLeft, gen, refreshLog, did, checkedAt, atCLock,
                   queuedAt, seen>>

CacheInit == Init /\ variant = 1

CacheNext ==
    \/ Tick
    \/ Wake
    \/ \E c \in Clients :
          \/ BadType(c)
          \/ Request(c)
          \/ getTopUsers(c)
          \/ getPosts(c)
          \/ SendJSON(c)
    \/ \E c \in Callers :
          \/ UpdLock(c)
          \/ UpdCheck(c)
          \/ UpdFetchFails(c)
          \/ UpdFetch(c)
          \/ UpdSetCounts(c)
          \/ UpdSetPosts(c)
          \/ UpdSetComments(c)
          \/ UpdStamp(c)
          \/ UpdUnlock(c)

CacheSpec == CacheInit /\ [][CacheNext]_vars

\* ------------------------------------------------------- derived notions

\* positions inside AddNumbers between Lock() and Unlock()
WriterCS == {"add_snap", "add_loop", "add_trunc", "add_unlock"}

\* positions inside GetCurrentState / GetAverage between RLock() and RUnlock()
ReaderCS == {"prev_runlock", "cur_runlock", "avg_runlock"}

\* positions of a handler that has called AddNumbers
AddPcs == {"add_lock"} \cup WriterCS

NoDup(s) == \A i, j \in 1..Len(s) : i # j => s[i] # s[j]

\* one AddNumbers call run alone on window w with batch b
Merged(w, b) == KeepLast(AppendUnique(w, BuildUnique(w), b))

\* the batches of a sequence merged one after the other into the empty window
RECURSIVE MergeAll(_)
MergeAll(bs) ==
    IF bs = <<>> THEN <<>>
    ELSE Merged(MergeAll(SubSeq(bs, 1, Len(bs) - 1)), bs[Len(bs)])

HasWindows(r) == "windowCurrState" \in DOMAIN r

\* ------------------------------------------------------------------ claims

\* C1: the window never holds more than WindowSize numbers in any state a
\* reader can observe: whenever no AddNumbers is between Lock and Unlock, and
\* in every copy GetCurrentState handed out and every window reported.
C1_WindowBounded ==
    /\ (\A p \in Handlers : pc[p] \notin WriterCS) => Len(numbers) <= WindowSize
    /\ \A p \in Handlers :
          /\ Len(prevState[p]) <= WindowSize
          /\ Len(currState[p]) <= WindowSize
          /\ HasWindows(resp[p]) =>
                /\ Len(resp[p].windowPrevState) <= WindowSize
                /\ Len(resp[p].windowCurrState) <= WindowSize

\* a batch longer than the window was merged and the reported window is full
C1_Witness ==
    \E p \in Handlers :
        /\ resp[p].status = 200
        /\ Len(resp[p].numbers) > WindowSize
        /\ Len(resp[p].windowCurrState) = WindowSize
        /\ Len(numbers) = WindowSize

\* C2: no value occurs at two positions of the window, in any state.
C2_Unique == NoDup(numbers)

\* a merge has finished whose batch repeats a value and holds a value that
\* was already in the window
C2_Witness ==
    \E p \in Handlers :
        /\ pc[p] = "add_unlock"
        /\ ~NoDup(fetched[p])
        /\ Elems(fetched[p]) \cap Elems(atLock[p]) # {}
        /\ Elems(fetched[p]) \ Elems(atLock[p]) # {}

\* C3: FIFO eviction: when the window holds exactly WindowSize values and
\* AddNumbers is called with one value not in it, the window afterwards is the
\* old window without its first element, followed by the new value.
C3_FifoEviction ==
    \A p \in Handlers :
        ( /\ pc[p] = "add_unlock"
          /\ Len(atLock[p]) = WindowSize
          /\ Len(fetched[p]) = 1
          /\ fetched[p][1] \notin Elems(atLock[p]) )
        => numbers = Tail(atLock[p]) \o fetched[p]

\* such a merge has run on a window that two earlier merges filled
C3_Witness ==
    \E p \in Handlers :
        /\ pc[p] = "add_unlock"
        /\ Len(atLock[p]) = WindowSize
        /\ Len(fetched[p]) = 1
        /\ fetched[p][1] \notin Elems(atLock[p])
        /\ Len(lockOrder) = 3
        /\ atLock[p][1] \in Elems(lockOrder[1])
        /\ atLock[p][WindowSize] \in Elems(lockOrder[2])

\* C4: concurrent AddNumbers calls are linearizable in lock order: whenever no
\* merge is half done, the window is the result of applying the batches one
\* after the other, in the order the calls acquired the write lock, to the
\* empty window (for all batches, in particular disjoint duplicate-free ones).
C4_Linearizable ==
    (\A p \in Handlers : pc[p] \notin {"add_snap", "add_loop", "add_trunc"})
    => numbers = MergeAll(lockOrder)

\* two handlers in flight at once merged disjoint duplicate-free batches: the
\* second merge is done and still holds the lock, the first handler waits
C4_Witness ==
    \E p, q \in Handlers :
        /\ p # q
        /\ pc[p] = "add_unlock"
        /\ pc[q] = "cur_rlock"
        /\ ~err[q]
        /\ lockOrder = <<fetched[q], fetched[p]>>
        /\ NoDup(fetched[p]) /\ NoDup(fetched[q])
        /\ Elems(fetched[p]) \cap Elems(fetched[q]) = {}
        /\ numbers = fetched[q] \o fetched[p]

\* C5: reader/writer exclusion: at most one AddNumbers is between Lock and
\* Unlock, no GetCurrentState / GetAverage is between RLock and RUnlock while
\* one is, and what a reader computes under the lock comes from the window as
\* left by the completed merges, never from a half-merged one.
C5_Exclusion ==
    /\ Cardinality({p \in Handlers : pc[p] \in WriterCS}) <= 1
    /\ (\E p \in Handlers : pc[p] \in WriterCS)
          => (\A q \in Handlers : pc[q] \notin ReaderCS)
    /\ \A p \in Handlers :
          /\ pc[p] = "prev_runlock" => prevState[p] = MergeAll(lockOrder)
          /\ pc[p] = "cur_runlock" => currState[p] = MergeAll(lockOrder)
          /\ pc[p] = "avg_runlock" => avg[p] = Average(MergeAll(lockOrder))

\* a reader holds the read lock on a non-empty window while an AddNumbers
\* call waits for the write lock
C5_Witness ==
    \E p, q \in Handlers :
        /\ pc[p] \in ReaderCS
        /\ pc[q] = "add_lock"
        /\ numbers # <<>>
        /\ mu.readers >= 1

\* C6: AddNumbers returns the window as it was when the call acquired the
\* lock; the value is not changed by the appends and the truncation of the
\* call, nor by later merges, up to and including the response.
C6_ReturnsPreMerge ==
    \A p \in Handlers :
        /\ (pc[p] \in {"add_loop", "add_trunc", "add_unlock", "cur_rlock",
                       "cur_runlock", "avg_rlock", "avg_runlock", "respond"}
            /\ ~err[p])
              => prevState[p] = atLock[p]
        /\ resp[p].status = 200 => resp[p].windowPrevState = atLock[p]

\* a response reports a non-empty previous window although the merge of the
\* same call changed the window and a later merge changed it again
C6_Witness ==
    \E p \in Handlers :
        /\ resp[p].status = 200
        /\ resp[p].windowPrevState # <<>>
        /\ resp[p].windowPrevState # resp[p].windowCurrState
        /\ numbers # resp[p].windowCurrState
        /\ Len(lockOrder) = 3

\* C7: a handler whose fetch failed or came back empty never calls AddNumbers
\* and none of its steps changes the window; the window changes only in a
\* step of a handler whose fetch succeeded with a non-empty batch.
C7_FailedFetchLeavesWindow ==
    [][ /\ \A p \in Handlers :
              /\ pc'[p] \in AddPcs => (~err'[p] /\ fetched'[p] # <<>>)
              /\ ((err[p] \/ err'[p]) /\ pc'[p] # pc[p]) => numbers' = numbers
        /\ numbers' # numbers =>
              \E p \in Handlers :
                  /\ pc[p] \in WriterCS /\ pc'[p] # pc[p]
                  /\ ~err[p] /\ fetched[p] # <<>>
      ]_vars

\* a request whose fetch failed has been answered (first build, with the
\* window in the response) while the window, filled by other requests, is
\* not empty
C7_Witness ==
    \E p \in Handlers :
        /\ resp[p].status = 500
        /\ HasWindows(resp[p])
        /\ resp[p].windowCurrState # <<>>
        /\ numbers = resp[p].windowCurrState

\* C8 (as claimed): every response to a failed fetch carries the window twice,
\* the two windows are equal, and the average is the average of that window.
C8_ErrorResponseConsistent ==
    \A p \in Handlers :
        (resp[p].status = 500 /\ variant = 1) =>
            /\ HasWindows(resp[p])
            /\ resp[p].error
            /\ resp[p].windowPrevState = resp[p].windowCurrState
            /\ resp[p].avg = Average(resp[p].windowCurrState)

\* C9 (as claimed): in every success response windowCurrState is the result of
\* merging the reported numbers into the reported windowPrevState.
C9_CurrIsOwnMerge ==
    \A p \in Handlers :
        resp[p].status = 200 =>
            resp[p].windowCurrState =
                Merged(resp[p].windowPrevState, resp[p].numbers)

\* C10 (as claimed): in every success response the average is the average of
\* the reported windowCurrState: avg * len(windowCurrState) = sum.
C10_AvgOfReportedWindow ==
    \A p \in Handlers :
        resp[p].status = 200 =>
            resp[p].avg.num * Len(resp[p].windowCurrState)
                = Sum(resp[p].windowCurrState) * resp[p].avg.den

\* ------------------------------------------- reference notions for merges

\* the positions of batch b that hold a value not in window w and not at an
\* earlier position of b
NewAt(b, w) ==
    {i \in 1..Len(b) :
        /\ b[i] \notin Elems(w)
        /\ \A j \in 1..(i - 1) : b[j] # b[i]}

\* the values of b at the positions of I, in the order of b, from position i on
RECURSIVE PickFrom(_, _, _)
PickFrom(b, I, i) ==
    IF i > Len(b) THEN <<>>
    ELSE (IF i \in I THEN <<b[i]>> ELSE <<>>) \o PickFrom(b, I, i + 1)

\* first occurrences, in batch order, of the values of b that are not in w
FirstNew(b, w) == PickFrom(b, NewAt(b, w), 1)

\* the last n elements of s (all of s when it has at most n)
LastN(s, n) ==
    IF Len(s) <= n THEN s ELSE [i \in 1..n |-> s[Len(s) - n + i]]

\* the values of the batches that took the lock before the last one
EarlierValues ==
    UNION {Elems(lockOrder[i]) : i \in 1..(Len(lockOrder) - 1)}

\* C11: a merge of a batch made only of values already in the window (the
\* empty batch included) returns the prior window and leaves the window as it
\* was, however often it is repeated.
C11_DuplicateMergeIsNoOp ==
    \A p \in Handlers :
        (pc[p] = "add_unlock" /\ Elems(fetched[p]) \subseteq Elems(atLock[p]))
        => /\ numbers = atLock[p]
           /\ prevState[p] = atLock[p]

\* the same non-empty batch has been merged a second and, after an empty
\* batch, a third time
C11_Witness ==
    \E p \in Handlers :
        /\ pc[p] = "add_unlock"
        /\ Len(lockOrder) = 3
        /\ lockOrder[2] = <<>>
        /\ lockOrder[1] = lockOrder[3]
        /\ fetched[p] = lockOrder[3]
        /\ fetched[p] # <<>>
        /\ Elems(fetched[p]) \subseteq Elems(atLock[p])

\* C12: GetAverage returns 0 on the empty window and otherwise the exact
\* ratio sum / length (result * length = sum, denominator never 0); the
\* window [2,4,6,8] gives 5.
C12_Average ==
    \A p \in Handlers :
        pc[p] = "avg_runlock" =>
            /\ avg[p].den > 0
            /\ numbers = <<>> => avg[p] = Zero
            /\ avg[p].num * Len(numbers) = Sum(numbers) * avg[p].den
            /\ numbers # <<>> =>
                  \A i \in 2..avg[p].den :
                      ~(avg[p].num % i = 0 /\ avg[p].den % i = 0)
            /\ numbers = <<2, 4, 6, 8>> => avg[p] = [num |-> 5, den |-> 1]

\* the average of [2,4,6,8] has been computed, after the average of the
\* empty window
C12_Witness ==
    \E p \in Handlers :
        /\ pc[p] = "avg_runlock"
        /\ numbers = <<2, 4, 6, 8>>
        /\ lockOrder = << <<>>, <<2, 4, 6, 8>> >>

\* C13: from the empty store, AddNumbers([4,7,7,9]) returns [] and leaves
\* [4,7,9] with average 20/3; then AddNumbers([7,2]) returns [4,7,9] and
\* leaves [4,7,9,2] with average 11/2.
C13_Scenario ==
    \A p \in Handlers :
        resp[p].status = 200 =>
            /\ lockOrder = << <<4, 7, 7, 9>> >> =>
                  resp[p] = [status |-> 200,
                             windowPrevState |-> <<>>,
                             windowCurrState |-> <<4, 7, 9>>,
                             numbers |-> <<4, 7, 7, 9>>,
                             avg |-> [num |-> 20, den |-> 3]]
            /\ lockOrder = << <<4, 7, 7, 9>>, <<7, 2>> >> =>
                  resp[p] = [status |-> 200,
                             windowPrevState |-> <<4, 7, 9>>,
                             windowCurrState |-> <<4, 7, 9, 2>>,
                             numbers |-> <<7, 2>>,
                             avg |-> [num |-> 11, den |-> 2]]

\* both calls of the scenario have been answered
C13_Witness ==
    \E p \in Handlers :
        /\ resp[p].status = 200
        /\ lockOrder = << <<4, 7, 7, 9>>, <<7, 2>> >>
        /\ numbers = <<4, 7, 9, 2>>

\* C15: the window after AddNumbers(B) on window P is the last WindowSize
\* elements of P followed by the first occurrences, in batch order, of the
\* values of B not in P; when B brings more than WindowSize new values, all
\* of P is evicted and the last WindowSize new values remain.
C15_MergeResult ==
    \A p \in Handlers :
        pc[p] = "add_unlock" =>
            LET new == FirstNew(fetched[p], atLock[p]) IN
            /\ numbers = LastN(atLock[p] \o new, WindowSize)
            /\ Len(new) > WindowSize =>
                  /\ numbers = LastN(new, WindowSize)
                  /\ Elems(numbers) \cap Elems(atLock[p]) = {}

\* a batch with more than WindowSize new values was merged into a non-empty
\* window
C15_Witness ==
    \E p \in Handlers :
        /\ pc[p] = "add_unlock"
        /\ atLock[p] # <<>>
        /\ Len(FirstNew(fetched[p], atLock[p])) > WindowSize
        /\ Len(numbers) = WindowSize

\* C16: membership is tested against the pre-merge window: a value that is
\* in the window before the merge and in the batch is not appended again, so
\* when the truncation of the same merge evicts it, it is absent afterwards;
\* window [-3,0,1..8] merged with [11,-3] leaves [0,1..8,11].
C16_EvictedBatchValueAbsent ==
    \A p \in Handlers :
        pc[p] = "add_unlock" =>
            LET new == FirstNew(fetched[p], atLock[p])
                k   == Len(atLock[p]) + Len(new) - WindowSize
            IN  /\ \A i \in 1..Len(atLock[p]) :
                      (i <= k /\ atLock[p][i] \in Elems(fetched[p]))
                      => atLock[p][i] \notin Elems(numbers)
                /\ (atLock[p] = <<-3, 0>> \o Run(1, 8) /\ fetched[p] = <<11, -3>>)
                      => numbers = <<0>> \o Run(1, 8) \o <<11>>

\* a batch of at most WindowSize values has been merged and one of its
\* values, in the window before, is not in the window after
C16_Witness ==
    \E p \in Handlers :
        /\ pc[p] = "add_unlock"
        /\ Len(fetched[p]) <= WindowSize
        /\ \E v \in Elems(fetched[p]) :
              v \in Elems(atLock[p]) /\ v \notin Elems(numbers)

\* C17: uniqueness is relative to the current window, not to history: a
\* value merged earlier and no longer in the window is accepted again and
\* appended at the tail (when the batch's new values fit the window they are
\* the window's last elements), and the window stays duplicate-free.
C17_EvictedValueAcceptedAgain ==
    \A p \in Handlers :
        pc[p] = "add_unlock" =>
            LET new == FirstNew(fetched[p], atLock[p]) IN
            /\ NoDup(numbers)
            /\ \A v \in (Elems(fetched[p]) \cap EarlierValues) \ Elems(atLock[p]) :
                  /\ v \in Elems(new)
                  /\ Len(new) <= WindowSize =>
                        /\ v \in Elems(numbers)
                        /\ LastN(numbers, Len(new)) = new

\* a value merged by the first call and evicted by the second has been
\* appended again by the third
C17_Witness ==
    \E p \in Handlers :
        /\ pc[p] = "add_unlock"
        /\ Len(lockOrder) = 3
        /\ \E v \in Elems(fetched[p]) :
              /\ v \in Elems(lockOrder[1])
              /\ v \notin Elems(atLock[p])
              /\ numbers[Len(numbers)] = v

\* C14: under fair scheduling no store operation blocks for ever: every
\* AddNumbers, GetCurrentState and GetAverage call that was started acquires
\* the lock, completes and releases it.
C14_NoCallBlocksForever ==
    \A p \in Handlers :
        /\ (pc[p] = "add_lock") ~> (pc[p] = "cur_rlock")
        /\ (pc[p] = "prev_rlock") ~> (pc[p] = "cur_rlock")
        /\ (pc[p] = "cur_rlock") ~> (pc[p] = "avg_rlock")
        /\ (pc[p] = "avg_rlock") ~> (pc[p] = "respond")

\* an AddNumbers call waits for the write lock while a reader holds the read
\* lock, after an earlier merge
C14_Witness ==
    \E p, q \in Handlers :
        /\ pc[p] = "add_lock"
        /\ ~CanLock(mu)
        /\ pc[q] \in ReaderCS
        /\ lockOrder # <<>>

\* ------------------------------------- claims on the aggregation service

Min(a, b) == IF a < b THEN a ELSE b

UniformGen(g) == g.counts = g.posts /\ g.posts = g.comments

\* C18: updateData refreshes only when at least updateInterval has passed
\* since lastUpdated, and makes the test holding the write lock; a caller
\* that finds the cache refreshed less than updateInterval ago returns
\* without fetching and without changing the cache; a caller that waited for
\* the lock while another caller's refresh finished fetches only if a whole
\* updateInterval went by before its own test; so the times of two
\* successful refreshes are never less than updateInterval apart.
C18_RefreshSpacing ==
    /\ \A c \in Callers :
          /\ cpc[c] \in UpdateCS => cmu.writer
          /\ cpc[c] \in RefreshPcs =>
                Since(cache.lastUpdated, checkedAt[c]) >= updateInterval
          /\ (cpc[c] = "u_unlock" /\ did[c] = "skip") =>
                /\ Since(cache.lastUpdated, checkedAt[c]) < updateInterval
                /\ cache = atCLock[c]
          /\ (cpc[c] \in UpdateCS /\ did[c] \in {"fetch", "fail"}
                /\ queuedAt[c] # NoTime) =>
                Since(queuedAt[c], checkedAt[c]) >= updateInterval
    /\ Cardinality({c \in Callers : cpc[c] \in UpdateCS}) <= 1
    /\ \A i, j \in 1..Len(refreshLog) :
          i < j => refreshLog[j] - refreshLog[i] >= updateInterval
    /\ refreshLog # <<>> => cache.lastUpdated = refreshLog[Len(refreshLog)]

\* two refreshes have succeeded, and a caller that waited for the lock while
\* the second one ran has returned without fetching
C18_Witness ==
    \E d \in Callers :
        /\ cpc[d] = "u_unlock"
        /\ did[d] = "skip"
        /\ queuedAt[d] = cache.lastUpdated
        /\ Len(refreshLog) = 2

\* C19: when fetchUsers fails, updateData leaves every field of the cache as
\* it was, lastUpdated included, so the cache is still stale for the next
\* call; userPostCounts, posts and postComments are replaced while the write
\* lock is held, so outside the update they come from the same refresh, and
\* a handler holding the read lock finds all three from the same refresh and
\* no update under way.
C19_FailureKeepsCache ==
    /\ \A c \in Callers :
          (cpc[c] = "u_unlock" /\ did[c] = "fail") =>
              /\ cache = atCLock[c]
              /\ Stale(cache.lastUpdated, now)
    /\ ~cmu.writer => UniformGen(gen)
    /\ \A c \in Clients :
          cpc[c] = "r_runlock" =>
              /\ UniformGen(seen[c])
              /\ seen[c] = gen
              /\ ~cmu.writer
              /\ \A d \in Callers : cpc[d] \notin UpdateCS

\* after a successful refresh fetchUsers has failed in a later call, which
\* leaves the posts of that refresh in the cache, while a handler waits to
\* read them
C19_Witness ==
    \E c \in Clients, d \in Callers :
        /\ cpc[d] = "u_unlock"
        /\ did[d] = "fail"
        /\ cache.posts # <<>>
        /\ gen.comments = 1
        /\ cpc[c] = "r_rlock"

\* the body of a getTopUsers response computed from the cache under the read
\* lock: at most TopCount users of userPostCounts, each once and with its
\* count, in non-increasing order of count, no user left out having more
\* posts than one returned
TopUsersOk(r, c) ==
    LET returned == {r[i].UserID : i \in 1..Len(r)} IN
    /\ Len(r) = Min(TopCount, Cardinality(DOMAIN c.userPostCounts))
    /\ Cardinality(returned) = Len(r)
    /\ \A i \in 1..Len(r) :
          /\ r[i].UserID \in DOMAIN c.userPostCounts
          /\ r[i].Count = c.userPostCounts[r[i].UserID]
    /\ \A i, j \in 1..Len(r) : i < j => r[i].Count >= r[j].Count
    /\ \A u \in DOMAIN c.userPostCounts \ returned :
          \A i \in 1..Len(r) : c.userPostCounts[u] <= r[i].Count

\* the body of a getPosts?type=latest response: at most TopCount cached
\* posts in decreasing order of ID, no post left out having a higher ID
LatestOk(r, c) ==
    /\ Len(r) = Min(TopCount, Len(c.posts))
    /\ \A i \in 1..Len(r) : r[i] \in Elems(c.posts)
    /\ \A i, j \in 1..Len(r) : i < j => r[i].ID > r[j].ID
    /\ \A q \in Elems(c.posts) \ Elems(r) :
          \A i \in 1..Len(r) : q.ID < r[i].ID

\* C20: getTopUsers answers with at most 5 users in non-increasing order of
\* post count, every user left out having at most the count of every user
\* returned; getPosts with type=latest answers with at most 5 posts in
\* decreasing order of ID; and no step of these handlers changes the cache,
\* the order of the cached posts in particular.
C20_TopFive ==
    [][ \A c \in Clients :
          /\ cpc'[c] = "r_runlock" =>
                /\ Len(result'[c]) <= TopCount
                /\ kind'[c] = "users" => TopUsersOk(result'[c], cache')
                /\ kind'[c] = "latest" => LatestOk(result'[c], cache')
          /\ (cpc[c] \in {"r_rlock", "r_runlock"} /\ cpc'[c] # cpc[c]) =>
                cache' = cache
      ]_vars

\* one handler answers with five of six users, a user without posts left
\* out, while another answers with the five latest of six posts that are
\* cached in another order
C20_Witness ==
    \E c, d \in Clients :
        /\ cpc[c] = "r_runlock" /\ kind[c] = "users"
        /\ Len(result[c]) = TopCount
        /\ Cardinality(DOMAIN cache.userPostCounts) > TopCount
        /\ result[c][TopCount].Count = 0
        /\ cpc[d] = "r_runlock" /\ kind[d] = "latest"
        /\ Len(result[d]) = TopCount
        /\ Len(cache.posts) > TopCount
        /\ result[d] # SubSeq(cache.posts, 1, TopCount)

====
